---- MODULE Spec2Model ----
(***************************************************************************)
(* A model of src/text-editor-server.ts: the text-editor MCP server.       *)
(*                                                                         *)
(* A string is a sequence of one-character strings, so that split, join,   *)
(* startsWith and the regular-expression replacement are computed          *)
(* character by character, as the JavaScript runtime computes them.        *)
(***************************************************************************)
EXTENDS Integers, Sequences, FiniteSets, TLC

(***************************************************************************)
(* Strings                                                                 *)
(***************************************************************************)
LF == "\n"

\* The strings over alphabet of length exactly n / at most n.
RECURSIVE StrN(_, _)
StrN(alphabet, n) ==
  IF n = 0 THEN {<<>>}
  ELSE {<<c>> \o s : c \in alphabet, s \in StrN(alphabet, n - 1)}

StrUpTo(alphabet, n) == UNION {StrN(alphabet, k) : k \in 0..n}

Max(a, b) == IF a >= b THEN a ELSE b
Min(a, b) == IF a <= b THEN a ELSE b

\* String.prototype.startsWith
StartsWith(s, prefix) ==
  /\ Len(prefix) <= Len(s)
  /\ SubSeq(s, 1, Len(prefix)) = prefix

\* Array.prototype.slice(from, to) for 0 <= from: 0-indexed, to exclusive,
\* both clamped to the length.
Slice(xs, from, to) == SubSeq(xs, Min(from, Len(xs)) + 1, Min(to, Len(xs)))

\* String.prototype.split(sep) for a one-character separator: always at
\* least one piece; the empty string splits to one empty piece.
RECURSIVE SplitOn(_, _)
SplitOn(s, sep) ==
  IF \A i \in 1..Len(s) : s[i] # sep THEN <<s>>
  ELSE LET i == CHOOSE k \in 1..Len(s) :
                  /\ s[k] = sep
                  /\ \A j \in 1..(k - 1) : s[j] # sep
       IN <<SubSeq(s, 1, i - 1)>> \o SplitOn(SubSeq(s, i + 1, Len(s)), sep)

\* Array.prototype.join(sep) on an array of strings.
RECURSIVE JoinWith(_, _)
JoinWith(xs, sep) ==
  IF Len(xs) = 0 THEN <<>>
  ELSE IF Len(xs) = 1 THEN xs[1]
  ELSE xs[1] \o <<sep>> \o JoinWith(Tail(xs), sep)

\* content.split("\n") and lines.join("\n")
SplitLines(content) == SplitOn(content, LF)
JoinLines(lines) == JoinWith(lines, LF)

(***************************************************************************)
(* Paths (POSIX path.resolve) and validatePath                             *)
(***************************************************************************)
SEP == "/"
DOT == <<".">>
DOTDOT == <<".", ".">>

\* process.cwd(): an absolute, normalized directory.
Cwd == <<"/", "w">>

\* normalizeString: walk the segments left to right; empty and "." segments
\* are dropped, ".." removes the last kept segment (and is dropped at the
\* root of an absolute path).
RECURSIVE NormalizeSegments(_, _)
NormalizeSegments(segs, kept) ==
  IF Len(segs) = 0 THEN kept
  ELSE LET s == Head(segs) IN
       IF s = <<>> \/ s = DOT THEN NormalizeSegments(Tail(segs), kept)
       ELSE IF s = DOTDOT
            THEN NormalizeSegments(Tail(segs),
                                   IF Len(kept) = 0 THEN kept
                                   ELSE SubSeq(kept, 1, Len(kept) - 1))
            ELSE NormalizeSegments(Tail(segs), Append(kept, s))

\* path.resolve(...args): the arguments are taken right to left until one
\* is absolute (the working directory is last in line); empty arguments are
\* skipped; the concatenation is normalized and has no trailing separator.
RECURSIVE ResolveConcat(_)
ResolveConcat(args) ==
  IF Len(args) = 0 THEN Cwd \o <<SEP>>
  ELSE LET a == args[Len(args)]
           rest == SubSeq(args, 1, Len(args) - 1)
       IN IF Len(a) = 0 THEN ResolveConcat(rest)
          ELSE IF a[1] = SEP THEN a \o <<SEP>>
          ELSE ResolveConcat(rest) \o a \o <<SEP>>

PathResolve(args) ==
  <<SEP>> \o JoinWith(NormalizeSegments(SplitOn(ResolveConcat(args), SEP), <<>>), SEP)

\* path.dirname of a resolved path.
Dirname(resolvedPath) ==
  LET segs == NormalizeSegments(SplitOn(resolvedPath, SEP), <<>>)
  IN <<SEP>> \o JoinWith(SubSeq(segs, 1, Len(segs) - 1), SEP)

\* validatePath (lines 32-42): the resolved path, and whether the check of
\* line 37, a string prefix test, lets it pass (it throws otherwise).
validatePath(base, filePath) ==
  [allowed |-> StartsWith(PathResolve(<<base, filePath>>), PathResolve(<<base>>)),
   resolvedPath |-> PathResolve(<<base, filePath>>)]

(***************************************************************************)
(* view: rendering of a file (lines 98-133)                                *)
(***************************************************************************)
Digits == <<"0", "1", "2", "3", "4", "5", "6", "7", "8", "9">>

\* The decimal digits of n >= 0, as a template literal prints a number.
RECURSIVE NumberToString(_)
NumberToString(n) ==
  IF n < 10 THEN <<Digits[n + 1]>>
  ELSE NumberToString(n \div 10) \o <<Digits[(n % 10) + 1]>>

\* The line number, ": " and the line, for every line of the slice, joined
\* by "\n"; first is the 0-based index of the slice's first line.
NumberedLines(lines, first) ==
  JoinLines([idx \in 1..Len(lines) |->
               NumberToString(first + idx) \o <<":", " ">> \o lines[idx]])

\* The view_range branch is taken for an array of exactly two numbers whose
\* clamped start is not after its clamped end; a view_range that is absent
\* (modelled as the empty array) or of another length gives the whole file.
RangeSelected(content, view_range) ==
  /\ Len(view_range) = 2
  /\ LET lines == SplitLines(content)
         startLine == Max(0, view_range[1] - 1)
         endLine == IF view_range[2] = -1 THEN Len(lines) - 1
                    ELSE Min(Len(lines) - 1, view_range[2] - 1)
     IN startLine <= endLine

\* A variant of ViewText whose slice stops one line short of endLine; the
\* claims about view are checked to tell it from ViewText.
ViewTextExclusiveEnd(content, view_range) ==
  LET lines == SplitLines(content) IN
  IF RangeSelected(content, view_range)
  THEN LET startLine == Max(0, view_range[1] - 1)
           endLine == IF view_range[2] = -1 THEN Len(lines) - 1
                      ELSE Min(Len(lines) - 1, view_range[2] - 1)
       IN NumberedLines(Slice(lines, startLine, endLine), startLine)
  ELSE NumberedLines(lines, 0)

ViewText(content, view_range) ==
  LET lines == SplitLines(content) IN
  IF RangeSelected(content, view_range)
  THEN LET startLine == Max(0, view_range[1] - 1)
           endLine == IF view_range[2] = -1 THEN Len(lines) - 1
                      ELSE Min(Len(lines) - 1, view_range[2] - 1)
       IN NumberedLines(Slice(lines, startLine, endLine + 1), startLine)
  ELSE NumberedLines(lines, 0)

(***************************************************************************)
(* edit: validation and splice (lines 244-274)                             *)
(***************************************************************************)
\* The first check (line 247).
EditStartInvalid(content, start_line) ==
  start_line < 1 \/ start_line > Len(SplitLines(content))

\* end_line === -1 ? lines.length : end_line (line 254)
EffectiveEndLine(content, end_line) ==
  IF end_line = -1 THEN Len(SplitLines(content)) ELSE end_line

\* A variant of EditEndInvalid without the upper bound on end_line; the
\* claims about the validation of edit are checked to tell it from
\* EditEndInvalid.
EditEndInvalidNoUpperBound(content, start_line, end_line) ==
  EffectiveEndLine(content, end_line) < start_line

\* The second check (line 256).
EditEndInvalid(content, start_line, end_line) ==
  LET effectiveEndLine == EffectiveEndLine(content, end_line)
  IN effectiveEndLine < start_line \/ effectiveEndLine > Len(SplitLines(content))

\* lines.slice(startIndex, endIndex + 1).join("\n") (line 265)
EditOldContent(content, start_line, end_line) ==
  Slice(SplitLines(content), start_line - 1, EffectiveEndLine(content, end_line))

\* updatedLines (line 271): the lines before, the lines of new_content, the
\* lines after.
EditUpdatedLines(content, start_line, end_line, new_content) ==
  LET lines == SplitLines(content)
      startIndex == start_line - 1
      endIndex == EffectiveEndLine(content, end_line) - 1
      newLines == SplitLines(new_content)
  IN Slice(lines, 0, startIndex) \o newLines \o Slice(lines, endIndex + 1, Len(lines))

(***************************************************************************)
(* insert (lines 325-344)                                                  *)
(***************************************************************************)
\* A variant of PadLines that pads one line too many; the claims about
\* insert beyond the end are checked to tell it from PadLines.
PadLinesOneMore(lines, n) ==
  lines \o [i \in 1..(n + 1 - Len(lines)) |-> <<>>]

\* while (lines.length < line_number - 1) lines.push("")
RECURSIVE PadLines(_, _)
PadLines(lines, n) ==
  IF Len(lines) < n THEN PadLines(Append(lines, <<>>), n) ELSE lines

\* A variant of InsertLines that inserts after the line given instead of
\* before it; the claims about insert are checked to tell it from
\* InsertLines.
InsertLinesAfter(content, line_number, text) ==
  LET lines == SplitLines(content) IN
  IF line_number <= Len(lines)
  THEN Slice(lines, 0, line_number) \o <<text>>
         \o Slice(lines, line_number, Len(lines))
  ELSE Append(PadLines(lines, line_number - 1), text)

\* lines.splice(line_number - 1, 0, text), or pad and push: text is one
\* array element either way.
InsertLines(content, line_number, text) ==
  LET lines == SplitLines(content) IN
  IF line_number <= Len(lines)
  THEN Slice(lines, 0, line_number - 1) \o <<text>>
         \o Slice(lines, line_number - 1, Len(lines))
  ELSE Append(PadLines(lines, line_number - 1), text)

(***************************************************************************)
(* str_replace: escapeRegExp, the regular expression and String.replace    *)
(* (lines 176-189, 470-472)                                                *)
(***************************************************************************)
BACKSLASH == "\\"

\* The character class of escapeRegExp: . * + ? ^ $ { } ( ) | [ ] \
RegExpSpecial ==
  {".", "*", "+", "?", "^", "$", "{", "}", "(", ")", "|", "[", "]", BACKSLASH}

\* string.replace(/[.*+?^${}()|[\]\\]/g, "\\$&"): a backslash before every
\* character of the class.
RECURSIVE escapeRegExp(_)
escapeRegExp(string) ==
  IF Len(string) = 0 THEN <<>>
  ELSE (IF Head(string) \in RegExpSpecial
        THEN <<BACKSLASH, Head(string)>> ELSE <<Head(string)>>)
       \o escapeRegExp(Tail(string))

\* new RegExp(source, "g"): the pattern as a sequence of atoms. A backslash
\* makes the next character a literal; an unescaped "." is any character but
\* a line terminator, "^" and "$" are the anchors of the input's start and
\* end (no "m" flag); every other character is a literal.  Quantifiers,
\* groups and classes are not modelled: the patterns built here hold them
\* only escaped.
Atom(kind, ch) == [kind |-> kind, ch |-> ch]

RECURSIVE ParsePattern(_)
ParsePattern(source) ==
  IF Len(source) = 0 THEN <<>>
  ELSE IF Head(source) = BACKSLASH /\ Len(source) >= 2
       THEN <<Atom("lit", source[2])>> \o ParsePattern(SubSeq(source, 3, Len(source)))
  ELSE IF Head(source) = "." THEN <<Atom("any", ".")>> \o ParsePattern(Tail(source))
  ELSE IF Head(source) = "$" THEN <<Atom("end", "$")>> \o ParsePattern(Tail(source))
  ELSE IF Head(source) = "^" THEN <<Atom("start", "^")>> \o ParsePattern(Tail(source))
  ELSE <<Atom("lit", Head(source))>> \o ParsePattern(Tail(source))

\* The pattern str_replace builds from old_str (lines 179, 188).
OldStrPattern(old_str) == ParsePattern(escapeRegExp(old_str))

\* The end (0-based, exclusive) of the match of atoms at 0-based index i of
\* s, or -1 when there is none.
RECURSIVE MatchFrom(_, _, _)
MatchFrom(atoms, s, i) ==
  IF Len(atoms) = 0 THEN i
  ELSE LET a == Head(atoms) IN
       IF a.kind = "lit"
       THEN IF i < Len(s) /\ s[i + 1] = a.ch
            THEN MatchFrom(Tail(atoms), s, i + 1) ELSE -1
       ELSE IF a.kind = "any"
       THEN IF i < Len(s) /\ s[i + 1] \notin {LF, "\r"}
            THEN MatchFrom(Tail(atoms), s, i + 1) ELSE -1
       ELSE IF a.kind = "end"
       THEN IF i = Len(s) THEN MatchFrom(Tail(atoms), s, i) ELSE -1
       ELSE IF i = 0 THEN MatchFrom(Tail(atoms), s, i) ELSE -1

\* The successive matches of a global regular expression, as
\* RegExp.prototype[Symbol.replace] collects them: each search starts at
\* lastIndex and takes the leftmost match; lastIndex moves to the match's
\* end, and one further after an empty match.
RECURSIVE FindMatches(_, _, _)
FindMatches(s, atoms, lastIndex) ==
  LET found == {i \in lastIndex..Len(s) : MatchFrom(atoms, s, i) # -1} IN
  IF found = {} THEN <<>>
  ELSE LET i == CHOOSE k \in found : \A j \in found : k <= j
           e == MatchFrom(atoms, s, i)
       IN <<[index |-> i, end |-> e]>>
            \o FindMatches(s, atoms, IF e = i THEN e + 1 ELSE e)

\* The grave accent, which a string literal of this language cannot hold.
GRAVE == "grave"
APOSTROPHE == "'"

\* GetSubstitution for a pattern without capture groups: "$$" is "$", "$&"
\* the match, "$" and a grave accent the text before it, "$" and an
\* apostrophe the text after it; any other "$" stands for itself.
RECURSIVE GetSubstitution(_, _, _, _)
GetSubstitution(matched, s, position, replacement) ==
  IF Len(replacement) = 0 THEN <<>>
  ELSE IF Head(replacement) = "$" /\ Len(replacement) >= 2
          /\ replacement[2] \in {"$", "&", GRAVE, APOSTROPHE}
       THEN (CASE replacement[2] = "$" -> <<"$">>
               [] replacement[2] = "&" -> matched
               [] replacement[2] = GRAVE -> SubSeq(s, 1, position)
               [] replacement[2] = APOSTROPHE -> SubSeq(s, position + Len(matched) + 1, Len(s)))
            \o GetSubstitution(matched, s, position,
                               SubSeq(replacement, 3, Len(replacement)))
       ELSE <<Head(replacement)>>
            \o GetSubstitution(matched, s, position, Tail(replacement))

\* The result of String.replace: the text between the matches is kept and
\* the k-th match gives way to repl[k].
RECURSIVE Assemble(_, _, _, _, _)
Assemble(s, matches, repl, k, nextSourcePosition) ==
  IF k > Len(matches) THEN SubSeq(s, nextSourcePosition + 1, Len(s))
  ELSE SubSeq(s, nextSourcePosition + 1, matches[k].index) \o repl[k]
       \o Assemble(s, matches, repl, k + 1, matches[k].end)

\* count is optional: [given |-> FALSE, n |-> 0] is count omitted.
NoCount == [given |-> FALSE, n |-> 0]
Count(n) == [given |-> TRUE, n |-> n]

\* The counted branch (lines 177-185): the replacer function returns new_str
\* for the first count matches and the match itself afterwards; what a
\* replacer function returns is inserted as it is.
ReplaceCounted(content, old_str, new_str, n) ==
  LET matches == FindMatches(content, OldStrPattern(old_str), 0)
      repl == [k \in 1..Len(matches) |->
                 IF k <= n THEN new_str
                 ELSE SubSeq(content, matches[k].index + 1, matches[k].end)]
  IN Assemble(content, matches, repl, 1, 0)

\* The replace-all branch (line 188): new_str is a replacement string.
ReplaceEvery(content, old_str, new_str) ==
  LET matches == FindMatches(content, OldStrPattern(old_str), 0)
      repl == [k \in 1..Len(matches) |->
                 GetSubstitution(SubSeq(content, matches[k].index + 1, matches[k].end),
                                 content, matches[k].index, new_str)]
  IN Assemble(content, matches, repl, 1, 0)

\* The replacement of the str_replace handler (lines 177-189).
StrReplaceContent(content, old_str, new_str, count) ==
  IF count.given /\ count.n > 0
  THEN ReplaceCounted(content, old_str, new_str, count.n)
  ELSE ReplaceEvery(content, old_str, new_str)

(***************************************************************************)
(* The server's state                                                      *)
(***************************************************************************)
VARIABLES
  baseDir,          \* the base directory given at startup (line 482)
  files,            \* the regular files on disk: resolved path -> content
  fileBackups,      \* the record of line 9: resolved path -> content
  last,             \* the last completed tool call and its result
  prev,             \* the call completed before it (history)
  beforeLastChange, \* per path, the content before the last call that changed it (history)
  inflight,         \* the handlers that are suspended at an await
  start             \* the disk when the first request arrived (history of SpecAsync)

vars == <<baseDir, files, fileBackups, last, prev, beforeLastChange, inflight, start>>

NoCall ==
  [tool |-> "none", path |-> <<>>, args |-> <<>>, resolved |-> <<>>,
   existed |-> FALSE, pre |-> <<>>, hadBackup |-> FALSE, preBackup |-> <<>>,
   hadChange |-> FALSE, preChange |-> [existed |-> FALSE, content |-> <<>>],
   isError |-> FALSE, error |-> "", text |-> <<>>]

\* A map with one key set (an object property assignment, a file write).
Put(map, key, value) ==
  [k \in DOMAIN map \cup {key} |-> IF k = key THEN value ELSE map[k]]

\* delete map[key]
Remove(map, key) == [k \in DOMAIN map \ {key} |-> map[k]]

EmptyMap == [k \in {} |-> <<>>]

\* p is dir or a directory above it.
IsAncestorOrSelf(p, dir) == p = dir \/ p = <<SEP>> \/ StartsWith(dir, p \o <<SEP>>)

\* The directories on disk: the base directory (root, resolved), which
\* startup creates with its parents (line 18), and the directories that hold
\* a file.
IsDirectory(root, fs, p) ==
  \/ IsAncestorOrSelf(p, root)
  \/ \E f \in DOMAIN fs : p # f /\ IsAncestorOrSelf(p, f)

\* fsSync.existsSync
existsSync(root, fs, p) == p \in DOMAIN fs \/ IsDirectory(root, fs, p)

\* backupFile (lines 45-54): a regular file's content is stored under its
\* path; a missing path is skipped, and the read error of a directory is
\* caught and logged.
backupFile(fs, backups, filePath) ==
  IF filePath \in DOMAIN fs THEN Put(backups, filePath, fs[filePath]) ELSE backups

\* The result of a handler: the disk and the backups it leaves, and the
\* response ("isError" with the error's kind, or the text returned).
Outcome(fs, backups, isError, error, text) ==
  [files |-> fs, backups |-> backups, isError |-> isError, error |-> error,
   text |-> text]

Fail(fs, backups, error) == Outcome(fs, backups, TRUE, error, <<>>)
Ok(fs, backups, text) == Outcome(fs, backups, FALSE, "", text)

(***************************************************************************)
(* The tool handlers, each run from its first line to its return.  v is    *)
(* what validatePath gave for the call's path, root the resolved base      *)
(* directory.                                                              *)
(***************************************************************************)
\* view (lines 67-148). The text of a directory listing is not modelled
\* beyond its first line.
viewOutcome(v, root, fs, backups, filePath, view_range) ==
  IF ~v.allowed THEN Fail(fs, backups, "AccessDenied")
  ELSE IF IsDirectory(root, fs, v.resolvedPath)
  THEN Ok(fs, backups, <<"D", "i", "r", "e", "c", "t", "o", "r", "y", ":", " ">> \o filePath)
  ELSE IF v.resolvedPath \notin DOMAIN fs THEN Fail(fs, backups, "ENOENT")
  ELSE Ok(fs, backups, ViewText(fs[v.resolvedPath], view_range))

\* str_replace (lines 161-215)
strReplaceOutcome(v, root, fs, backups, old_str, new_str, count) ==
  IF ~v.allowed THEN Fail(fs, backups, "AccessDenied")
  ELSE IF ~existsSync(root, fs, v.resolvedPath) THEN Fail(fs, backups, "FileDoesNotExist")
  ELSE IF v.resolvedPath \notin DOMAIN fs
  THEN Fail(fs, backupFile(fs, backups, v.resolvedPath), "EISDIR")
  ELSE Ok(Put(fs, v.resolvedPath,
              StrReplaceContent(fs[v.resolvedPath], old_str, new_str, count)),
          backupFile(fs, backups, v.resolvedPath), <<>>)

\* edit (lines 228-297); the text returned holds the displaced lines.
editOutcome(v, root, fs, backups, start_line, end_line, new_content) ==
  IF ~v.allowed THEN Fail(fs, backups, "AccessDenied")
  ELSE IF ~existsSync(root, fs, v.resolvedPath) THEN Fail(fs, backups, "FileDoesNotExist")
  ELSE IF v.resolvedPath \notin DOMAIN fs
  THEN Fail(fs, backupFile(fs, backups, v.resolvedPath), "EISDIR")
  ELSE IF EditStartInvalid(fs[v.resolvedPath], start_line)
  THEN Fail(fs, backupFile(fs, backups, v.resolvedPath), "InvalidStartLine")
  ELSE IF EditEndInvalid(fs[v.resolvedPath], start_line, end_line)
  THEN Fail(fs, backupFile(fs, backups, v.resolvedPath), "InvalidEndLine")
  ELSE Ok(Put(fs, v.resolvedPath,
              JoinLines(EditUpdatedLines(fs[v.resolvedPath], start_line, end_line,
                                         new_content))),
          backupFile(fs, backups, v.resolvedPath),
          JoinLines(EditOldContent(fs[v.resolvedPath], start_line, end_line)))

\* insert (lines 309-367)
insertOutcome(v, root, fs, backups, line_number, text) ==
  IF ~v.allowed THEN Fail(fs, backups, "AccessDenied")
  ELSE IF ~existsSync(root, fs, v.resolvedPath) THEN Fail(fs, backups, "FileDoesNotExist")
  ELSE IF v.resolvedPath \notin DOMAIN fs
  THEN Fail(fs, backupFile(fs, backups, v.resolvedPath), "EISDIR")
  ELSE IF line_number < 1
  THEN Fail(fs, backupFile(fs, backups, v.resolvedPath), "LineNumberTooSmall")
  ELSE Ok(Put(fs, v.resolvedPath,
              JoinLines(InsertLines(fs[v.resolvedPath], line_number, text))),
          backupFile(fs, backups, v.resolvedPath), <<>>)

\* A variant of createOutcome that never refuses an existing path; the
\* claims about create are checked to tell it from createOutcome.
createOutcomeNoRefusal(v, root, fs, backups, content, overwrite) ==
  IF ~v.allowed THEN Fail(fs, backups, "AccessDenied")
  ELSE IF \E f \in DOMAIN fs : IsAncestorOrSelf(f, Dirname(v.resolvedPath))
  THEN Fail(fs, backups, "ENOTDIR")
  ELSE IF IsDirectory(root, fs, v.resolvedPath)
  THEN Fail(fs, backupFile(fs, backups, v.resolvedPath), "EISDIR")
  ELSE Ok(Put(fs, v.resolvedPath, content),
          IF existsSync(root, fs, v.resolvedPath)
          THEN backupFile(fs, backups, v.resolvedPath) ELSE backups,
          <<>>)

\* create (lines 379-421): mkdir of the parent fails when a regular file is
\* in its way, writeFile fails on a directory.
createOutcome(v, root, fs, backups, content, overwrite) ==
  IF ~v.allowed THEN Fail(fs, backups, "AccessDenied")
  ELSE IF existsSync(root, fs, v.resolvedPath) /\ ~overwrite
  THEN Fail(fs, backups, "AlreadyExists")
  ELSE IF \E f \in DOMAIN fs : IsAncestorOrSelf(f, Dirname(v.resolvedPath))
  THEN Fail(fs, backups, "ENOTDIR")
  ELSE IF IsDirectory(root, fs, v.resolvedPath)
  THEN Fail(fs, backupFile(fs, backups, v.resolvedPath), "EISDIR")
  ELSE Ok(Put(fs, v.resolvedPath, content),
          IF existsSync(root, fs, v.resolvedPath)
          THEN backupFile(fs, backups, v.resolvedPath) ELSE backups,
          <<>>)

\* !fileBackups[resolvedPath] (line 436): true for a missing key and for a
\* stored empty string.
NoBackupAvailable(backups, resolvedPath) ==
  resolvedPath \notin DOMAIN backups \/ backups[resolvedPath] = <<>>

\* A variant of undoEditOutcome that keeps the snapshot it has written
\* back; the claims about undo_edit are checked to tell it from
\* undoEditOutcome.
undoEditOutcomeKeepsBackup(v, fs, backups) ==
  IF ~v.allowed THEN Fail(fs, backups, "AccessDenied")
  ELSE IF NoBackupAvailable(backups, v.resolvedPath) THEN Fail(fs, backups, "NoBackup")
  ELSE Ok(Put(fs, v.resolvedPath, backups[v.resolvedPath]), backups, <<>>)

\* undo_edit (lines 431-466)
undoEditOutcome(v, fs, backups) ==
  IF ~v.allowed THEN Fail(fs, backups, "AccessDenied")
  ELSE IF NoBackupAvailable(backups, v.resolvedPath) THEN Fail(fs, backups, "NoBackup")
  ELSE Ok(Put(fs, v.resolvedPath, backups[v.resolvedPath]),
          Remove(backups, v.resolvedPath), <<>>)

(***************************************************************************)
(* Tool calls as actions: one handler runs to completion                   *)
(***************************************************************************)
\* The response of a call is recorded in last, with what the call found:
\* the target's content and backup before it ran.
Complete(tool, filePath, resolvedPath, args, o) ==
  /\ files' = o.files
  /\ fileBackups' = o.backups
  /\ beforeLastChange' =
       IF resolvedPath \in DOMAIN o.files
          /\ (resolvedPath \notin DOMAIN files \/ o.files[resolvedPath] # files[resolvedPath])
       THEN Put(beforeLastChange, resolvedPath,
                [existed |-> resolvedPath \in DOMAIN files,
                 content |-> IF resolvedPath \in DOMAIN files
                             THEN files[resolvedPath] ELSE <<>>])
       ELSE beforeLastChange
  /\ last' =
       [tool |-> tool, path |-> filePath, args |-> args,
        resolved |-> resolvedPath,
        existed |-> resolvedPath \in DOMAIN files,
        pre |-> IF resolvedPath \in DOMAIN files THEN files[resolvedPath] ELSE <<>>,
        hadBackup |-> resolvedPath \in DOMAIN fileBackups,
        preBackup |-> IF resolvedPath \in DOMAIN fileBackups
                      THEN fileBackups[resolvedPath] ELSE <<>>,
        hadChange |-> resolvedPath \in DOMAIN beforeLastChange,
        preChange |-> IF resolvedPath \in DOMAIN beforeLastChange
                      THEN beforeLastChange[resolvedPath]
                      ELSE [existed |-> FALSE, content |-> <<>>],
        isError |-> o.isError, error |-> o.error, text |-> o.text]
  /\ UNCHANGED <<baseDir, inflight, start>>

View(filePath, view_range) ==
  \E v \in {validatePath(baseDir, filePath)}, root \in {PathResolve(<<baseDir>>)} :
    \E o \in {viewOutcome(v, root, files, fileBackups, filePath, view_range)} :
      Complete("view", filePath, v.resolvedPath, [view_range |-> view_range], o)

StrReplace(filePath, old_str, new_str, count) ==
  \E v \in {validatePath(baseDir, filePath)}, root \in {PathResolve(<<baseDir>>)} :
    \E o \in {strReplaceOutcome(v, root, files, fileBackups, old_str, new_str, count)} :
      Complete("str_replace", filePath, v.resolvedPath,
               [old_str |-> old_str, new_str |-> new_str, count |-> count], o)

Edit(filePath, start_line, end_line, new_content) ==
  \E v \in {validatePath(baseDir, filePath)}, root \in {PathResolve(<<baseDir>>)} :
    \E o \in {editOutcome(v, root, files, fileBackups, start_line, end_line,
                          new_content)} :
      Complete("edit", filePath, v.resolvedPath,
               [start_line |-> start_line, end_line |-> end_line,
                new_content |-> new_content], o)

Insert(filePath, line_number, text) ==
  \E v \in {validatePath(baseDir, filePath)}, root \in {PathResolve(<<baseDir>>)} :
    \E o \in {insertOutcome(v, root, files, fileBackups, line_number, text)} :
      Complete("insert", filePath, v.resolvedPath,
               [line_number |-> line_number, text |-> text], o)

Create(filePath, content, overwrite) ==
  \E v \in {validatePath(baseDir, filePath)}, root \in {PathResolve(<<baseDir>>)} :
    \E o \in {createOutcome(v, root, files, fileBackups, content, overwrite)} :
      Complete("create", filePath, v.resolvedPath,
               [content |-> content, overwrite |-> overwrite], o)

UndoEdit(filePath) ==
  \E v \in {validatePath(baseDir, filePath)} :
    \E o \in {undoEditOutcome(v, files, fileBackups)} :
      Complete("undo_edit", filePath, v.resolvedPath, <<>>, o)

(***************************************************************************)
(* Spec: the server under a client that awaits each response before its    *)
(* next request                                                            *)
(***************************************************************************)
\* The longest file content, in characters.
MaxLen == 1

FileChars == {"a", LF}
Contents == StrUpTo(FileChars, MaxLen)

\* The path of the file the calls work on, and a path outside the base
\* directory.
FilePath == <<"f">>
EscapePath == <<".", ".", "/", "f">>
PathInputs == {FilePath, EscapePath}

SpecBaseDir == <<"/", "b">>

\* Every file within the length bound.
Bounded == \A f \in DOMAIN files : Len(files[f]) <= MaxLen

\* At startup the base directory exists, holds the file or not, and nothing
\* is backed up.
Init ==
  /\ baseDir = SpecBaseDir
  /\ files \in {EmptyMap}
       \cup {[f \in {PathResolve(<<SpecBaseDir, FilePath>>)} |-> c] : c \in Contents}
  /\ fileBackups = EmptyMap
  /\ last = NoCall
  /\ prev = NoCall
  /\ beforeLastChange = EmptyMap
  /\ inflight = <<>>
  /\ start = EmptyMap

\* The arguments the client draws from.
ViewRanges == {<<>>, <<1, 1>>}
ReplaceArgs ==
  {[old_str |-> <<"a">>, new_str |-> <<>>, count |-> NoCount],
   [old_str |-> <<"a">>, new_str |-> <<LF>>, count |-> Count(1)],
   [old_str |-> <<LF>>, new_str |-> <<"a">>, count |-> NoCount]}
EditArgs ==
  {[start_line |-> 1, end_line |-> -1, new_content |-> <<"a">>],
   [start_line |-> 1, end_line |-> 1, new_content |-> <<>>],
   [start_line |-> 2, end_line |-> 2, new_content |-> <<"a">>],
   [start_line |-> 0, end_line |-> 1, new_content |-> <<>>]}
InsertArgs ==
  {[line_number |-> 1, text |-> <<>>],
   [line_number |-> 2, text |-> <<"a">>],
   [line_number |-> 0, text |-> <<"a">>]}

\* A call completes within the length bound; prev is left alone.
InBounds == Bounded' /\ UNCHANGED prev

ViewCall ==
  \E filePath \in PathInputs, view_range \in ViewRanges :
    View(filePath, view_range) /\ InBounds

StrReplaceCall ==
  \E filePath \in PathInputs, a \in ReplaceArgs :
    StrReplace(filePath, a.old_str, a.new_str, a.count) /\ InBounds

EditCall ==
  \E filePath \in PathInputs, a \in EditArgs :
    Edit(filePath, a.start_line, a.end_line, a.new_content) /\ InBounds

InsertCall ==
  \E filePath \in PathInputs, a \in InsertArgs :
    Insert(filePath, a.line_number, a.text) /\ InBounds

CreateCall ==
  \E filePath \in PathInputs, content \in Contents, overwrite \in BOOLEAN :
    Create(filePath, content, overwrite) /\ InBounds

UndoEditCall == \E filePath \in PathInputs : UndoEdit(filePath) /\ InBounds

Next ==
  \/ ViewCall
  \/ StrReplaceCall
  \/ EditCall
  \/ InsertCall
  \/ CreateCall
  \/ UndoEditCall

Spec == Init /\ [][Next]_vars

(***************************************************************************)
(* Claims on the undo mechanism (Spec)                                     *)
(***************************************************************************)
MutatingTools == {"str_replace", "edit", "insert", "create"}

\* The last call was a mutating operation that found the file, so that it
\* took a snapshot, and changed the file's content.
SnapshotThenChange ==
  /\ last.tool \in MutatingTools
  /\ ~last.isError
  /\ last.existed
  /\ files[last.resolved] # last.pre

\* C1: when a mutating operation has snapshotted a file and changed it, the
\* next undo_edit on that path succeeds and leaves the file byte-identical to
\* its content before the mutation, whatever that content was (the empty
\* string included).
C1_UndoRoundTrip ==
  [][(/\ SnapshotThenChange
      /\ last'.tool = "undo_edit"
      /\ last'.resolved = last.resolved)
     => (/\ ~last'.isError
         /\ files'[last.resolved] = last.pre)]_vars

\* C3: a successful undo_edit(p) leaves p with the content it had
\* immediately before the most recent call that changed p's content.
C3_UndoRevertsLastModification ==
  (/\ last.tool = "undo_edit"
   /\ ~last.isError
   /\ last.hadChange)
  => (/\ last.preChange.existed
      /\ files[last.resolved] = last.preChange.content)

(***************************************************************************)
(* SpecAsync: the handlers at the grain of their awaits.  A handler is an  *)
(* async function: it runs to its next await, and the requests that have   *)
(* arrived meanwhile are served from the same event loop.  The handlers    *)
(* that read, change and write a file are modelled: str_replace, edit and  *)
(* insert, which share their shape (lines 163-192, 230-274, 311-344).      *)
(***************************************************************************)
\* The requests a client sends without waiting for a response.
MaxRequests == 2

\* What a handler computes between its read and its write: the new content,
\* or the error it throws.
Transform(tool, args, content) ==
  IF tool = "edit"
  THEN IF EditStartInvalid(content, args.start_line)
       THEN [isError |-> TRUE, error |-> "InvalidStartLine", content |-> content]
       ELSE IF EditEndInvalid(content, args.start_line, args.end_line)
       THEN [isError |-> TRUE, error |-> "InvalidEndLine", content |-> content]
       ELSE [isError |-> FALSE, error |-> "",
             content |-> JoinLines(EditUpdatedLines(content, args.start_line,
                                                    args.end_line, args.new_content))]
  ELSE IF tool = "insert"
  THEN IF args.line_number < 1
       THEN [isError |-> TRUE, error |-> "LineNumberTooSmall", content |-> content]
       ELSE [isError |-> FALSE, error |-> "",
             content |-> JoinLines(InsertLines(content, args.line_number, args.text))]
  ELSE [isError |-> FALSE, error |-> "",
        content |-> StrReplaceContent(content, args.old_str, args.new_str, args.count)]

Requests ==
  {[tool |-> "str_replace", args |-> a] : a \in ReplaceArgs}
    \cup {[tool |-> "edit", args |-> a] : a \in EditArgs}
    \cup {[tool |-> "insert", args |-> a] : a \in InsertArgs}

SetCall(i, pc, buf, isError, error) ==
  inflight' = [inflight EXCEPT ![i] =
                 [@ EXCEPT !.pc = pc, !.buf = buf, !.isError = isError, !.error = error]]

\* A request arrives and its handler is called.
Receive ==
  /\ Len(inflight) < MaxRequests
  /\ \E r \in Requests, filePath \in PathInputs :
       inflight' = Append(inflight,
                          [tool |-> r.tool, args |-> r.args, path |-> filePath,
                           v |-> validatePath(baseDir, filePath),
                           pc |-> "start", buf |-> <<>>, isError |-> FALSE,
                           error |-> ""])
  /\ start' = IF Len(inflight) = 0 THEN files ELSE start
  /\ UNCHANGED <<baseDir, files, fileBackups, last, prev, beforeLastChange>>

\* From the handler's first line to the await of backupFile's readFile.
Begin(i) ==
  /\ inflight[i].pc = "start"
  /\ IF ~inflight[i].v.allowed
     THEN SetCall(i, "done", <<>>, TRUE, "AccessDenied")
     ELSE IF ~existsSync(PathResolve(<<baseDir>>), files, inflight[i].v.resolvedPath)
     THEN SetCall(i, "done", <<>>, TRUE, "FileDoesNotExist")
     ELSE SetCall(i, "backup", <<>>, FALSE, "")
  /\ UNCHANGED <<baseDir, files, fileBackups, last, prev, beforeLastChange, start>>

\* backupFile's read completes and the snapshot is stored; the handler goes
\* on to the await of its own readFile.
BackupDone(i) ==
  /\ inflight[i].pc = "backup"
  /\ fileBackups' = backupFile(files, fileBackups, inflight[i].v.resolvedPath)
  /\ SetCall(i, "read", <<>>, FALSE, "")
  /\ UNCHANGED <<baseDir, files, last, prev, beforeLastChange, start>>

\* The handler's read completes; it validates, computes the new content and
\* awaits writeFile.
ReadDone(i) ==
  /\ inflight[i].pc = "read"
  /\ IF inflight[i].v.resolvedPath \notin DOMAIN files
     THEN SetCall(i, "done", <<>>, TRUE, "EISDIR")
     ELSE \E t \in {Transform(inflight[i].tool, inflight[i].args,
                              files[inflight[i].v.resolvedPath])} :
            IF t.isError THEN SetCall(i, "done", <<>>, TRUE, t.error)
            ELSE SetCall(i, "write", t.content, FALSE, "")
  /\ UNCHANGED <<baseDir, files, fileBackups, last, prev, beforeLastChange, start>>

\* writeFile completes and the handler returns.
WriteDone(i) ==
  /\ inflight[i].pc = "write"
  /\ files' = Put(files, inflight[i].v.resolvedPath, inflight[i].buf)
  /\ SetCall(i, "done", inflight[i].buf, FALSE, "")
  /\ UNCHANGED <<baseDir, fileBackups, last, prev, beforeLastChange, start>>

InitAsync ==
  /\ baseDir = SpecBaseDir
  /\ files \in {[f \in {PathResolve(<<SpecBaseDir, FilePath>>)} |-> c] : c \in Contents}
  /\ fileBackups = EmptyMap
  /\ last = NoCall
  /\ prev = NoCall
  /\ beforeLastChange = EmptyMap
  /\ inflight = <<>>
  /\ start = EmptyMap

NextAsync ==
  \/ Receive
  \/ \E i \in DOMAIN inflight : Begin(i)
  \/ \E i \in DOMAIN inflight : BackupDone(i)
  \/ \E i \in DOMAIN inflight : ReadDone(i)
  \/ \E i \in DOMAIN inflight : WriteDone(i)

SpecAsync == InitAsync /\ [][NextAsync]_vars

\* The disk and the backups after request r has been served alone, from its
\* first line to its return.
ServeAlone(state, r) ==
  LET v == validatePath(baseDir, r.path)
      root == PathResolve(<<baseDir>>)
      o == IF r.tool = "edit"
           THEN editOutcome(v, root, state.files, state.backups, r.args.start_line,
                            r.args.end_line, r.args.new_content)
           ELSE IF r.tool = "insert"
           THEN insertOutcome(v, root, state.files, state.backups, r.args.line_number,
                              r.args.text)
           ELSE strReplaceOutcome(v, root, state.files, state.backups, r.args.old_str,
                                  r.args.new_str, r.args.count)
  IN [files |-> o.files, backups |-> o.backups]

AllDone ==
  /\ Len(inflight) = MaxRequests
  /\ \A i \in DOMAIN inflight : inflight[i].pc = "done"

\* C4: the steps of two invocations never interleave, so once both have
\* returned, the file and the backup entry are those of serving the two
\* requests one after the other, in one order or the other.
C4_SequentialOutcome ==
  (AllDone /\ MaxRequests = 2) =>
    \E i, j \in DOMAIN inflight :
      /\ i # j
      /\ LET s0 == [files |-> start, backups |-> EmptyMap]
             s2 == ServeAlone(ServeAlone(s0, inflight[i]), inflight[j])
         IN files = s2.files /\ fileBackups = s2.backups

(***************************************************************************)
(* SpecPath: validatePath applied to every path of a bounded set, under    *)
(* every base directory of BaseDirs                                        *)
(***************************************************************************)
MaxPathLen == 5

PathChars == {SEP, ".", "b"}

\* The two paths the specification names: ../escape.txt and subdir/file.txt
EscapeTxt == <<".", ".", "/", "e", "s", "c", "a", "p", "e", ".", "t", "x", "t">>
SubdirFile == <<"s", "u", "b", "d", "i", "r", "/", "f", "i", "l", "e", ".", "t", "x", "t">>

PathStrings == StrUpTo(PathChars, MaxPathLen) \cup {EscapeTxt, SubdirFile}

\* An absolute base directory, the same with a trailing separator, and a
\* relative one (resolved against the working directory).
BaseDirs == {<<"/", "b">>, <<"/", "b", "/">>, <<"b">>}

InitPath ==
  /\ baseDir \in BaseDirs
  /\ files = EmptyMap
  /\ fileBackups = EmptyMap
  /\ last = NoCall
  /\ prev = NoCall
  /\ beforeLastChange = EmptyMap
  /\ inflight = <<>>
  /\ start = EmptyMap

\* validatePath(filePath) returns or throws.
Validate(filePath) ==
  /\ last.tool = "none"
  /\ \E v \in {validatePath(baseDir, filePath)} :
       last' = [NoCall EXCEPT !.tool = "validatePath", !.path = filePath,
                              !.resolved = v.resolvedPath,
                              !.isError = ~v.allowed,
                              !.error = IF v.allowed THEN "" ELSE "AccessDenied"]
  /\ UNCHANGED <<baseDir, files, fileBackups, prev, beforeLastChange, inflight, start>>

NextPath == \E filePath \in PathStrings : Validate(filePath)

SpecPath == InitPath /\ [][NextPath]_vars

\* p is dir or lies below it, segment by segment.
Within(dir, p) == p = dir \/ dir = <<SEP>> \/ StartsWith(p, dir \o <<SEP>>)

\* C2: validatePath either fails with AccessDenied or returns an absolute path
\* that is the normalized base directory or a descendant of it; it rejects
\* ../escape.txt and accepts subdir/file.txt.
C2_PathConfinement ==
  last.tool = "validatePath" =>
    /\ ~last.isError =>
         /\ Head(last.resolved) = SEP
         /\ Within(PathResolve(<<baseDir>>), last.resolved)
    /\ last.path = EscapeTxt => last.isError
    /\ last.path = SubdirFile => ~last.isError

(***************************************************************************)
(* SpecEdit: one edit call on every file content of a bounded set, with    *)
(* every line range around it, and a view call after a successful edit     *)
(***************************************************************************)
\* The longest initial content, in characters.
MaxText == 3

TextChars == {"a", "b", LF}

\* The file and the call of the specification's example:
\* lines a, b, c, d and edit(2, 3, "x\ny\nz").
ExampleContent == <<"a", LF, "b", LF, "c", LF, "d">>
ExampleNewContent == <<"x", LF, "y", LF, "z">>

TextContents == StrUpTo(TextChars, MaxText) \cup {ExampleContent}

\* start_line and end_line run from below the first line to beyond the last
\* line a content of TextContents can have.
StartLines == 0..(MaxText + 2)
EndLines == -2..(MaxText + 2)
NewContents == {<<>>, <<"b">>, <<LF>>, <<"b", LF, "a">>, ExampleNewContent}

\* The disk holds the one file, with any content of the set given.
InitWith(contents) ==
  /\ baseDir = SpecBaseDir
  /\ files \in {[f \in {PathResolve(<<SpecBaseDir, FilePath>>)} |-> c] : c \in contents}
  /\ fileBackups = EmptyMap
  /\ last = NoCall
  /\ prev = NoCall
  /\ beforeLastChange = EmptyMap
  /\ inflight = <<>>
  /\ start = EmptyMap

InitEdit == InitWith(TextContents)

EditOnce ==
  /\ last.tool = "none"
  /\ \E start_line \in StartLines, end_line \in EndLines, new_content \in NewContents :
       Edit(FilePath, start_line, end_line, new_content)
  /\ UNCHANGED prev

\* The ranges viewed after edit(start_line, end_line, new_content): the same
\* range, and the range the lines of new_content have taken.
RangesAfterEdit(args) ==
  {<<args.start_line, args.end_line>>,
   <<args.start_line, args.start_line + Len(SplitLines(args.new_content)) - 1>>}

ViewAfterEdit ==
  /\ last.tool = "edit"
  /\ ~last.isError
  /\ \E view_range \in RangesAfterEdit(last.args) : View(FilePath, view_range)
  /\ prev' = last

NextEdit == EditOnce \/ ViewAfterEdit

SpecEdit == InitEdit /\ [][NextEdit]_vars

\* The number of lines of a content: one more than its line feeds.
LineCount(content) == Cardinality({i \in 1..Len(content) : content[i] = LF}) + 1

\* The target file of the last call, now.
Target == files[last.resolved]

\* The range of an edit call is valid for the content it found.
ValidRange(call) ==
  /\ 1 <= call.args.start_line
  /\ call.args.start_line <= LineCount(call.pre)
  /\ \/ call.args.end_line = -1
     \/ /\ call.args.start_line <= call.args.end_line
        /\ call.args.end_line <= LineCount(call.pre)

\* end_line with -1 read as the last line.
ResolvedEnd(call) ==
  IF call.args.end_line = -1 THEN LineCount(call.pre) ELSE call.args.end_line

\* With before the lines the edit call found, after the lines it left and
\* k the lines that new_content contributes: the lines before start_line
\* and after end_line are kept, in order, around the k new lines.
SplicedWith(call, after, newLines) ==
  LET before == SplitLines(call.pre)
      s == call.args.start_line
      e == ResolvedEnd(call)
      k == Len(newLines)
  IN /\ Len(after) = Len(before) - (e - s + 1) + k
     /\ \A i \in 1..(s - 1) : after[i] = before[i]
     /\ \A i \in 1..k : after[s - 1 + i] = newLines[i]
     /\ \A i \in (e + 1)..Len(before) : after[i - (e - s + 1) + k] = before[i]

\* C5 as stated: new_content may contribute zero lines, so that an empty
\* new_content removes the range.
C5_SpliceZeroOneOrMany ==
  (last.tool = "edit" /\ ValidRange(last)) =>
    /\ ~last.isError
    /\ SplicedWith(last, SplitLines(Target),
                   IF last.args.new_content = <<>> THEN <<>>
                   ELSE SplitLines(last.args.new_content))

\* C5, amended: after an edit with a valid range the file is the lines before
\* start_line, the lines of new_content split on line feed, one at least (an
\* empty new_content is one empty line), and the lines after end_line,
\* joined by line feed.
C5_Splice ==
  (last.tool = "edit" /\ ValidRange(last)) =>
    /\ ~last.isError
    /\ Len(SplitLines(last.args.new_content)) >= 1
    /\ SplicedWith(last, SplitLines(Target), SplitLines(last.args.new_content))
    /\ Target = JoinLines(SplitLines(Target))

\* The example: lines a, b, c, d and edit(2, 3, "x\ny\nz") give a, x, y, z, d.
C5_Witness ==
  /\ last.tool = "edit"
  /\ last.pre = ExampleContent
  /\ last.args = [start_line |-> 2, end_line |-> 3, new_content |-> ExampleNewContent]
  /\ Target = <<"a", LF, "x", LF, "y", LF, "z", LF, "d">>

\* C7: an edit whose range is not valid for the file returns an error and
\* leaves the file byte-identical; an edit whose range is valid does not
\* fail.
C7_RangeValidation ==
  last.tool = "edit" =>
    /\ ~ValidRange(last) => (last.isError /\ files = [f \in {last.resolved} |-> last.pre])
    /\ ValidRange(last) => ~last.isError

\* An end_line beyond the last line, refused with the file untouched.
C7_Witness ==
  /\ last.tool = "edit"
  /\ last.args.start_line = 2
  /\ last.args.end_line = LineCount(last.pre) + 1
  /\ last.error = "InvalidEndLine"
  /\ Target = last.pre

\* A line of the text view returns, without its line number, colon and
\* space (a text without numbered lines is left as it is).
StripNumber(line) ==
  LET colons == {i \in 1..Len(line) : line[i] = ":"}
  IN IF colons = {} THEN line
     ELSE SubSeq(line, (CHOOSE i \in colons : \A j \in colons : i <= j) + 2, Len(line))

\* The lines view returned, without their numbers.
ViewedLines(text) ==
  [i \in 1..Len(SplitLines(text)) |-> StripNumber(SplitLines(text)[i])]

\* The last two calls: a successful edit, and a view of the range given.
EditThenView(view_range) ==
  /\ prev.tool = "edit"
  /\ last.tool = "view"
  /\ last.args.view_range = view_range

\* C6 as stated: edit followed by view over the same range returns the lines
\* of new_content.
C6_ViewSameRange ==
  EditThenView(<<prev.args.start_line, prev.args.end_line>>) =>
    ViewedLines(last.text) = SplitLines(prev.args.new_content)

\* C6, amended: edit followed by view over [start_line, start_line + k - 1],
\* k the number of lines of new_content, returns the lines of new_content
\* (that is the same range when new_content has as many lines as the range
\* it replaces); the lines outside the edited range are as before.
C6_ViewNewLines ==
  (prev.tool = "edit" /\ last.tool = "view") =>
    /\ ~last.isError
    /\ EditThenView(<<prev.args.start_line,
                      prev.args.start_line + Len(SplitLines(prev.args.new_content)) - 1>>)
         => ViewedLines(last.text) = SplitLines(prev.args.new_content)
    /\ (/\ EditThenView(<<prev.args.start_line, prev.args.end_line>>)
        /\ Len(SplitLines(prev.args.new_content))
             = ResolvedEnd(prev) - prev.args.start_line + 1)
         => ViewedLines(last.text) = SplitLines(prev.args.new_content)
    /\ SplicedWith(prev, SplitLines(last.pre), SplitLines(prev.args.new_content))

\* Three lines have replaced two, and the view of the three returns them.
C6_Witness ==
  /\ EditThenView(<<2, 4>>)
  /\ prev.pre = ExampleContent
  /\ prev.args = [start_line |-> 2, end_line |-> 3, new_content |-> ExampleNewContent]
  /\ ViewedLines(last.text) = <<<<"x">>, <<"y">>, <<"z">>>>

(***************************************************************************)
(* SpecInsert: one insert call on every file content of the bounded set,   *)
(* at every line number from below the first line to beyond the last      *)
(***************************************************************************)
LineNumbers == 0..(MaxText + 3)
Texts == {<<>>, <<"b">>, <<LF>>, <<"b", LF, "a">>}

InitInsert == InitWith(TextContents)

InsertOnce ==
  /\ last.tool = "none"
  /\ \E line_number \in LineNumbers, text \in Texts : Insert(FilePath, line_number, text)
  /\ UNCHANGED prev

NextInsert == InsertOnce

SpecInsert == InitInsert /\ [][NextInsert]_vars

\* The last call is an insert beyond the last line of the file it found.
InsertBeyondEnd ==
  /\ last.tool = "insert"
  /\ last.args.line_number > LineCount(last.pre)

\* The last call is an insert at a line of the file it found.
InsertWithin ==
  /\ last.tool = "insert"
  /\ 1 <= last.args.line_number
  /\ last.args.line_number <= LineCount(last.pre)

\* Beyond the end: the first n lines are kept, the lines n+1..L-1 are empty
\* and the lines given follow from line L to the end.
ExtendedWith(call, after, newLines) ==
  LET before == SplitLines(call.pre)
      L == call.args.line_number
  IN /\ Len(after) = L - 1 + Len(newLines)
     /\ \A i \in 1..Len(before) : after[i] = before[i]
     /\ \A i \in (Len(before) + 1)..(L - 1) : after[i] = <<>>
     /\ \A i \in 1..Len(newLines) : after[L - 1 + i] = newLines[i]

\* Within the file: the lines given stand from line L, the lines before L
\* are kept and the lines from L on follow the lines given, in order.
ShiftedBy(call, after, newLines) ==
  LET before == SplitLines(call.pre)
      L == call.args.line_number
  IN /\ Len(after) = Len(before) + Len(newLines)
     /\ \A i \in 1..(L - 1) : after[i] = before[i]
     /\ \A i \in 1..Len(newLines) : after[L - 1 + i] = newLines[i]
     /\ \A i \in L..Len(before) : after[i + Len(newLines)] = before[i]

\* C8 as stated: insert beyond the end of a file of n lines, for every text T,
\* gives a file of exactly L lines whose last line is T, whose lines n+1..L-1
\* are empty and whose first n lines are unchanged.
C8_InsertBeyondEndOneLine ==
  InsertBeyondEnd =>
    /\ ~last.isError
    /\ ExtendedWith(last, SplitLines(Target), <<last.args.text>>)

\* C8, amended: insert beyond the end keeps the first n lines, leaves the
\* lines n+1..L-1 empty and writes T from line L on: a T with k line feeds is
\* the k+1 last lines of a file of L+k lines, and a T without a line feed is
\* the final line L of a file of exactly L lines.
C8_InsertBeyondEnd ==
  InsertBeyondEnd =>
    /\ ~last.isError
    /\ ExtendedWith(last, SplitLines(Target), SplitLines(last.args.text))
    /\ LineCount(Target) = last.args.line_number + LineCount(last.args.text) - 1
    /\ LineCount(last.args.text) = 1 =>
         /\ LineCount(Target) = last.args.line_number
         /\ SplitLines(Target)[last.args.line_number] = last.args.text

\* A text of two lines written two lines beyond the end of the file.
C8_Witness ==
  /\ InsertBeyondEnd
  /\ last.args.line_number = LineCount(last.pre) + 2
  /\ last.args.text = <<"b", LF, "a">>
  /\ LineCount(Target) = last.args.line_number + 1

ReplaceChars == {"a", "."}
ReplaceContents == StrUpTo(ReplaceChars, MaxText)
OldStrs == {<<>>, <<"a">>, <<".">>, <<"a", "a">>, <<"a", ".">>}
NewStrs == {<<>>, <<"b">>, <<"a", "a">>, <<"$", "&">>, <<"$", "$">>, <<"$", APOSTROPHE>>}
Counts == {NoCount, Count(-1), Count(0), Count(1), Count(2)}

InitReplace == InitWith(ReplaceContents)

ReplaceOnce ==
  /\ last.tool = "none"
  /\ \E old_str \in OldStrs, new_str \in NewStrs, count \in Counts :
       StrReplace(FilePath, old_str, new_str, count)
  /\ UNCHANGED prev

NextReplace == ReplaceOnce

SpecReplace == InitReplace /\ [][NextReplace]_vars

\* The occurrences of old as a literal substring of content, scanning left to
\* right from the index given, the first limit of them replaced by new and
\* all other text kept. The empty string occurs once at every index.
RECURSIVE LiteralReplace(_, _, _, _, _)
LiteralReplace(content, old, new, limit, from) ==
  LET hits == {i \in from..(Len(content) - Len(old)) :
                 SubSeq(content, i + 1, i + Len(old)) = old}
  IN IF limit = 0 \/ hits = {}
     THEN SubSeq(content, from + 1, Len(content))
     ELSE LET i == CHOOSE h \in hits : \A g \in hits : h <= g
          IN SubSeq(content, from + 1, i) \o new \o
             (IF old # <<>>
              THEN LiteralReplace(content, old, new, limit - 1, i + Len(old))
              ELSE IF i = Len(content) THEN <<>>
              ELSE <<content[i + 1]>> \o LiteralReplace(content, old, new, limit - 1, i + 1))

\* The occurrences a str_replace call is to replace: count of them, or
\* every one when count is omitted or not positive.
ReplaceLimit(call) ==
  IF call.args.count.given /\ call.args.count.n > 0
  THEN call.args.count.n
  ELSE Len(call.pre) + 1

\* C10: str_replace replaces the occurrences of old_str as a literal
\* substring by new_str, every one when count is omitted or <= 0 and the
\* first min(N, occurrences) when count = N > 0, leaves all other text
\* untouched and returns no error, old_str occurring or not.
C10_CountSemantics ==
  last.tool = "str_replace" =>
    /\ ~last.isError
    /\ Target = LiteralReplace(last.pre, last.args.old_str, last.args.new_str,
                               ReplaceLimit(last), 0)

(***************************************************************************)
(* SpecCreate: one create call, and a second after it, on disks that hold  *)
(* no file, a file, or a file in a subdirectory                            *)
(***************************************************************************)
CR == "\r"

\* Paths inside the base directory: a file, a subdirectory, a file in it, a
\* path below a regular file, and the base directory itself.
DirPath == <<"d">>
DirFilePath == <<"d", "/", "f">>
BelowFilePath == <<"f", "/", "x">>
BasePath == <<".">>
CreatePaths == {FilePath, DirPath, DirFilePath, BelowFilePath, BasePath}

\* Contents with line feeds, carriage returns and no final line break.
CreateContents == {<<>>, <<"a">>, <<"a", LF>>, <<"a", CR, LF, "b">>, <<LF, LF>>}

\* The disk holds nothing, the file, or the file of the subdirectory.
InitCreate ==
  /\ baseDir = SpecBaseDir
  /\ files \in {EmptyMap}
       \cup {[f \in {PathResolve(<<SpecBaseDir, q>>)} |-> c] :
               q \in {FilePath, DirFilePath}, c \in CreateContents}
  /\ fileBackups = EmptyMap
  /\ last = NoCall
  /\ prev = NoCall
  /\ beforeLastChange = EmptyMap
  /\ inflight = <<>>
  /\ start = EmptyMap

CreateOnce ==
  /\ last.tool = "none"
  /\ \E filePath \in CreatePaths, content \in CreateContents, overwrite \in BOOLEAN :
       Create(filePath, content, overwrite)
  /\ UNCHANGED prev

CreateAgain ==
  /\ last.tool = "create"
  /\ prev.tool = "none"
  /\ \E filePath \in CreatePaths, content \in CreateContents, overwrite \in BOOLEAN :
       Create(filePath, content, overwrite)
  /\ prev' = last

NextCreate == CreateOnce \/ CreateAgain

SpecCreate == InitCreate /\ [][NextCreate]_vars

\* The step is a create call on a path inside the base directory.
CreateInside ==
  /\ last'.tool = "create"
  /\ Within(PathResolve(<<baseDir>>), last'.resolved)

\* The path of the call exists on the disk the call finds.
CreateFindsPath == existsSync(PathResolve(<<baseDir>>), files, last'.resolved)

\* The path of the call can hold a file on the disk the call finds: it is
\* not a directory and no regular file is in the place of a directory of it.
CreateFindsRoom ==
  /\ ~IsDirectory(PathResolve(<<baseDir>>), files, last'.resolved)
  /\ \A f \in DOMAIN files : ~StartsWith(last'.resolved, f \o <<SEP>>)

\* create without overwrite on an existing path fails with AlreadyExists
\* and changes neither the disk nor the backups.
CreateRefused ==
  (~last'.args.overwrite /\ CreateFindsPath) =>
    /\ last'.isError
    /\ last'.error = "AlreadyExists"
    /\ files' = files
    /\ fileBackups' = fileBackups

\* The call succeeds and the file holds the content given, character for
\* character.
CreateWrites ==
  /\ ~last'.isError
  /\ last'.resolved \in DOMAIN files'
  /\ files'[last'.resolved] = last'.args.content

\* C11 as stated: create without overwrite on an existing path fails with
\* AlreadyExists and leaves the file and the backups unchanged; create with
\* overwrite always succeeds and the file holds exactly content afterwards.
C11_CreateAlwaysSucceeds ==
  [][CreateInside =>
       /\ CreateRefused
       /\ last'.args.overwrite => CreateWrites]_vars

\* C11, amended: create without overwrite on an existing path fails with
\* AlreadyExists and leaves the file and the backups unchanged; create with
\* overwrite succeeds whenever the path is not a directory and no regular
\* file stands where a directory of the path is needed, and the file holds
\* exactly content afterwards; on a directory, or below a regular file,
\* create fails and writes no file.
C11_Create ==
  [][CreateInside =>
       /\ CreateRefused
       /\ (last'.args.overwrite /\ CreateFindsRoom) => CreateWrites
       /\ (last'.args.overwrite /\ ~CreateFindsRoom) =>
            (last'.isError /\ files' = files)]_vars

\* An existing file overwritten with a content of two lines that holds a
\* carriage return and ends without a line feed.
C11_Witness ==
  /\ last.tool = "create"
  /\ last.args.overwrite
  /\ last.existed
  /\ ~last.isError
  /\ last.args.content = <<"a", CR, LF, "b">>
  /\ Target = <<"a", CR, LF, "b">>
  /\ last.pre # Target

(***************************************************************************)
(* SpecUndo: the calls of Spec on the one file, with prev the last call    *)
(* before the last one that ran a mutating tool or undid a change          *)
(***************************************************************************)
InitUndo == Init

\* last is a call of a mutating tool (whatever its result, the handler has
\* gone through backupFile or refused before it) or a successful undo_edit.
LastCounts ==
  \/ last.tool \in MutatingTools
  \/ last.tool = "undo_edit" /\ ~last.isError

\* A call completes within the length bound and prev keeps the tool and the
\* path of the last call that counts.
Remember ==
  /\ Bounded'
  /\ prev' = IF LastCounts
             THEN [NoCall EXCEPT !.tool = last.tool, !.resolved = last.resolved]
             ELSE prev

ViewStep == \E view_range \in ViewRanges : View(FilePath, view_range) /\ Remember

StrReplaceStep ==
  \E a \in ReplaceArgs : StrReplace(FilePath, a.old_str, a.new_str, a.count) /\ Remember

EditStep ==
  \E a \in EditArgs : Edit(FilePath, a.start_line, a.end_line, a.new_content) /\ Remember

InsertStep == \E a \in InsertArgs : Insert(FilePath, a.line_number, a.text) /\ Remember

CreateStep ==
  \E content \in Contents, overwrite \in BOOLEAN :
    Create(FilePath, content, overwrite) /\ Remember

UndoEditStep == UndoEdit(FilePath) /\ Remember

NextUndo ==
  \/ ViewStep
  \/ StrReplaceStep
  \/ EditStep
  \/ InsertStep
  \/ CreateStep
  \/ UndoEditStep

SpecUndo == InitUndo /\ [][NextUndo]_vars

\* The last call has left the disk as it found it.
DiskUntouched ==
  IF last.existed
  THEN files = [f \in {last.resolved} |-> last.pre]
  ELSE files = EmptyMap

RECURSIVE Occurrences(_, _, _)
Occurrences(content, old, from) ==
  LET hits == {i \in from..(Len(content) - Len(old)) :
                 SubSeq(content, i + 1, i + Len(old)) = old}
  IN IF hits = {} THEN 0
     ELSE 1 + Occurrences(content, old,
                          (CHOOSE h \in hits : \A g \in hits : h <= g) + Max(Len(old), 1))

\* The counts N >= the occurrences of old_str that take the counted branch.
EnoughCounts(call) ==
  Max(1, Occurrences(call.pre, call.args.old_str, 0))..(Len(call.pre) + 2)

\* C13: str_replace with count omitted writes what str_replace with any
\* count N >= the occurrences of old_str writes, new_str verbatim in the
\* place of every occurrence, whatever '$' sequences new_str holds.
C13_VerbatimBothPaths ==
  (last.tool = "str_replace" /\ ~last.args.count.given) =>
    /\ \A N \in EnoughCounts(last) :
         Target = StrReplaceContent(last.pre, last.args.old_str, last.args.new_str,
                                    Count(N))
    /\ Target = LiteralReplace(last.pre, last.args.old_str, last.args.new_str,
                               Len(last.pre) + 1, 0)

====
